---------------------------- MODULE Spec2Model ----------------------------
(* A model of multienum.MultiEnum (src/multienum.py): an int subclass whose *)
(* instances are built from an integer, a name, an existing instance or a   *)
(* field keyword, and which exposes per-field names, iteration and a choice *)
(* list.                                                                    *)
(*                                                                          *)
(* Python values are records [t, v]: t is the Python type, v the payload.   *)
(* A str is a sequence of characters, so that str.casefold() is computed    *)
(* character by character.  An instance is a reference into the heap: two   *)
(* references are the same object exactly when they are the same index.     *)
EXTENDS Integers, Sequences, FiniteSets

VARIABLES classes, heap, iters, last

vars == <<classes, heap, iters, last>>

-----------------------------------------------------------------------------
(* Bounds of the model. *)

\* Most instances the heap holds.
MaxInstances == 2
\* Most inputs (positional plus keyword) of one constructor call.
MaxArgs == 2
\* Integer inputs range over -MaxInt .. MaxInt.
MaxInt == 3
\* Most live iterators.
MaxIters == 2
\* The ends of a _choice_range range over -1 .. MaxEnd.
MaxEnd == 5

-----------------------------------------------------------------------------
(* Python values. *)

NoneVal == [t |-> "none", v |-> 0]
IntV(n) == [t |-> "int", v |-> n]
StrV(s) == [t |-> "str", v |-> s]
ObjV(id) == [t |-> "obj", v |-> id]
TupV(s) == [t |-> "tuple", v |-> s]

\* a == b for the values the model compares: values of different types differ.
\* A name is StrV(<<characters>>); a field label is StrV("label"), an atom: labels
\* are only ever compared with labels, never folded.
PyEq(a, b) == a.t = b.t /\ a.v = b.v

Ok(v) == [ok |-> TRUE, val |-> v, exc |-> "", msg |-> ""]
Raise(e, m) == [ok |-> FALSE, val |-> NoneVal, exc |-> e, msg |-> m]

\* seq[i] for a Python tuple: a negative index counts from the end.
PyGetItem(seq, i) ==
  IF 0 <= i /\ i < Len(seq) THEN Ok(seq[i + 1])
  ELSE IF i < 0 /\ -i <= Len(seq) THEN Ok(seq[Len(seq) + i + 1])
  ELSE Raise("IndexError", "tuple index out of range")

\* tuple.index(x): the first 0-based position holding x.
RECURSIVE IndexFrom(_, _, _)
IndexFrom(seq, x, i) ==
  IF i > Len(seq) THEN Raise("ValueError", "tuple.index(x): x not in tuple")
  ELSE IF PyEq(seq[i], x) THEN Ok(IntV(i - 1))
  ELSE IndexFrom(seq, x, i + 1)

PyIndex(seq, x) == IndexFrom(seq, x, 1)

\* str.casefold() of one character; ESZETT stands for the sharp s, which
\* folds to two characters.
FoldChar(c) ==
  CASE c = "A" -> <<"a">>
    [] c = "B" -> <<"b">>
    [] c = "S" -> <<"s">>
    [] c = "ESZETT" -> <<"s", "s">>
    [] OTHER -> <<c>>

RECURSIVE casefold(_)
casefold(s) == IF s = << >> THEN << >> ELSE FoldChar(Head(s)) \o casefold(Tail(s))

-----------------------------------------------------------------------------
(* The class attributes _members, _fields, _ignore_case, _choice_fields and *)
(* _choice_range, as attribute lookup on the class finds them.  An unset    *)
(* _choice_fields or _choice_range is NoneVal here (getattr's default is    *)
(* then used).                                                              *)

ClassDef(m, f, ic, cf, cr) ==
  [_members |-> m, _fields |-> f, _ignore_case |-> ic,
   _choice_fields |-> cf, _choice_range |-> cr]

\* len(cls._members)
NumRows(c) == Len(classes[c]._members.v)

-----------------------------------------------------------------------------
(* MultiEnum._resolve_value *)

\* str(val): a str is itself, an int is not needed as text here (ints are
\* taken before str() is called), an instance prints its first name.
PyStr(val) ==
  IF val.t = "obj" THEN heap[val.v]._names[1].v ELSE val.v

\* RowHolds looking at the first name of the row only.
RowHoldsMutantFirstColumn(row, s, ic) ==
  IF ic THEN casefold(row[1].v) = casefold(s) ELSE row[1].v = s

\* RowHolds folding the input but not the names of the row.
RowHoldsMutantFoldInput(row, s, ic) ==
  IF ic THEN \E k \in 1..Len(row) : row[k].v = casefold(s)
  ELSE \E k \in 1..Len(row) : row[k].v = s

\* str(val) in cls._members[i], or its casefolded form.
RowHolds(row, s, ic) ==
  IF ic THEN \E k \in 1..Len(row) : casefold(row[k].v) = casefold(s)
  ELSE \E k \in 1..Len(row) : row[k].v = s

\* ScanRows returning the last row that holds the name instead of the first.
ScanRowsMutantLast(members, s, ic, i) ==
  LET found == {r \in i..(Len(members) - 1) : RowHolds(members[r + 1].v, s, ic)}
  IN  IF found = {}
      THEN Raise("AttributeError", "Enumeration name '%s' not in _members")
      ELSE Ok(IntV(CHOOSE r \in found : \A q \in found : q <= r))

\* next(i for i in range(0, len(cls._members)) if ...), StopIteration -> AttributeError
RECURSIVE ScanRows(_, _, _, _)
ScanRows(members, s, ic, i) ==
  IF i >= Len(members)
  THEN Raise("AttributeError", "Enumeration name '%s' not in _members")
  ELSE IF RowHolds(members[i + 1].v, s, ic) THEN Ok(IntV(i))
  ELSE ScanRows(members, s, ic, i + 1)

\* _resolve_value without the pass-through of an instance of cls.
ResolveValueMutantNoIdentity(c, val) ==
  IF val.t = "int" THEN Ok(val)
  ELSE ScanRows(classes[c]._members.v, PyStr(val), classes[c]._ignore_case, 0)

ResolveValue(c, val) ==
  IF val.t = "obj" /\ heap[val.v].cls = c THEN Ok(val)
  ELSE IF val.t = "int" THEN Ok(val)
  ELSE ScanRows(classes[c]._members.v, PyStr(val), classes[c]._ignore_case, 0)

-----------------------------------------------------------------------------
(* MultiEnum.__new__ *)

\* The kwargs loop: one (key, val) pair, resolved through _fields.
ResolveKeyword(c, key, val) ==
  IF classes[c]._fields.t = "none"
  THEN Raise("TypeError", "'NoneType' object is not iterable")
  ELSE LET findex == PyIndex(classes[c]._fields.v, StrV(key))
       IN  IF ~findex.ok THEN findex
           ELSE IF \E r \in 1..NumRows(c) :
                     ~PyGetItem(classes[c]._members.v[r].v, findex.val.v).ok
           THEN Raise("IndexError", "tuple index out of range")
           ELSE PyIndex([r \in 1..NumRows(c) |->
                           PyGetItem(classes[c]._members.v[r].v, findex.val.v).val],
                        val)

\* Retval counting the inputs before it looks for _members.
RetvalMutantShapeFirst(c, args, kwargs) ==
  IF Len(args) + Len(kwargs) # 1
  THEN Raise("TypeError", "Enumeration creation takes exactly one parameter")
  ELSE IF classes[c]._members.t = "none"
  THEN Raise("TypeError", "No _members given at definition")
  ELSE IF Len(args) > 0 THEN ResolveValue(c, args[1])
  ELSE ResolveKeyword(c, kwargs[1].key, kwargs[1].val)

\* The value __new__ holds in retval before the final type test.
Retval(c, args, kwargs) ==
  IF classes[c]._members.t = "none"
  THEN Raise("TypeError", "No _members given at definition")
  ELSE IF Len(args) + Len(kwargs) # 1
  THEN Raise("TypeError", "Enumeration creation takes exactly one parameter")
  ELSE IF Len(args) > 0 THEN ResolveValue(c, args[1])
  ELSE ResolveKeyword(c, kwargs[1].key, kwargs[1].val)

\* The outcome of cls(*args, **kwargs): <<result, heap after the call>>.
NewOutcome(c, args, kwargs) ==
  LET r == Retval(c, args, kwargs)
  IN  IF ~r.ok THEN <<r, heap>>
      ELSE IF r.val.t = "obj" /\ heap[r.val.v].cls = c THEN <<r, heap>>
      ELSE LET row == PyGetItem(classes[c]._members.v, r.val.v)
           IN  IF ~row.ok THEN <<row, heap>>
               ELSE <<Ok(ObjV(Len(heap) + 1)),
                      Append(heap, [cls |-> c, ordinal |-> r.val.v, _names |-> row.val.v])>>

NoCall == [op |-> "none", cls |-> "", args |-> << >>, kwargs |-> << >>,
           obj |-> 0, key |-> "", it |-> 0, res |-> Ok(NoneVal)]

New(c, args, kwargs) ==
  LET out == NewOutcome(c, args, kwargs)
  IN  /\ Len(out[2]) <= MaxInstances
      /\ heap' = out[2]
      /\ last' = [NoCall EXCEPT !.op = "new", !.cls = c, !.args = args,
                                !.kwargs = kwargs, !.res = out[1]]
      /\ UNCHANGED <<classes, iters>>

-----------------------------------------------------------------------------
(* MultiEnum.__getattr__, __str__ / name, __iter__ *)

\* self._fields, self._members: class attributes read through the instance.
FieldsOf(x) == classes[heap[x].cls]._fields
MembersOf(x) == classes[heap[x].cls]._members

\* __getattr__ returning the default name whatever the label.
GetAttrMutantNames0(x, key) ==
  IF FieldsOf(x).t = "none"
  THEN Raise("AttributeError",
             "Attribute missing: MultiEnum object does not have _fields defined")
  ELSE IF \E k \in 1..Len(FieldsOf(x).v) : PyEq(FieldsOf(x).v[k], StrV(key))
  THEN PyGetItem(heap[x]._names, 0)
  ELSE Raise("AttributeError", "Enumeration name '%s' not defined")

GetAttrResult(x, key) ==
  IF FieldsOf(x).t = "none"
  THEN Raise("AttributeError",
             "Attribute missing: MultiEnum object does not have _fields defined")
  ELSE IF \E k \in 1..Len(FieldsOf(x).v) : PyEq(FieldsOf(x).v[k], StrV(key))
  THEN PyGetItem(heap[x]._names, PyIndex(FieldsOf(x).v, StrV(key)).val.v)
  ELSE Raise("AttributeError", "Enumeration name '%s' not defined")

GetAttr(x, key) ==
  /\ last' = [NoCall EXCEPT !.op = "getattr", !.obj = x, !.key = key,
                            !.res = GetAttrResult(x, key)]
  /\ UNCHANGED <<classes, heap, iters>>

\* __str__ and the name property: self._names[0]
StrResult(x) == PyGetItem(heap[x]._names, 0)

ToStr(x) ==
  /\ last' = [NoCall EXCEPT !.op = "str", !.obj = x, !.res = StrResult(x)]
  /\ UNCHANGED <<classes, heap, iters>>

\* zip(self._fields, self._members[self]): both arguments are evaluated when
\* __iter__ is called; the generator then draws from the zip one pair at a time.
IterResult(x) ==
  LET row == PyGetItem(MembersOf(x).v, heap[x].ordinal)
  IN  IF ~row.ok THEN row
      ELSE IF FieldsOf(x).t = "none"
      THEN Raise("TypeError", "'NoneType' object is not iterable")
      ELSE Ok([obj |-> x, fields |-> FieldsOf(x).v, row |-> row.val.v,
               pos |-> 0, done |-> FALSE, yielded |-> << >>])

Iter(x) ==
  LET r == IterResult(x)
  IN  /\ Len(iters) < MaxIters
      /\ iters' = IF r.ok THEN Append(iters, r.val) ELSE iters
      /\ last' = [NoCall EXCEPT !.op = "iter", !.obj = x,
                    !.it = IF r.ok THEN Len(iters) + 1 ELSE 0,
                    !.res = IF r.ok THEN Ok(NoneVal) ELSE r]
      /\ UNCHANGED <<classes, heap>>

\* A zip that stops one pair early.
ZipLenMutantShort(a, b) == IF Len(a) < Len(b) THEN Len(a) - 1 ELSE Len(b) - 1

\* How many pairs a zip of the two sequences holds.

ZipLen(a, b) == IF Len(a) < Len(b) THEN Len(a) ELSE Len(b)

\* next() on the generator: the next pair of the zip, or StopIteration for good.
\* yielded is what the consumer has collected from this iterator so far.
IterNext(i) ==
  LET it == iters[i]
      more == ~it.done /\ it.pos < ZipLen(it.fields, it.row)
      pair == TupV(<<it.fields[it.pos + 1], it.row[it.pos + 1]>>)
  IN  /\ iters' = [iters EXCEPT ![i] =
                     IF more THEN [it EXCEPT !.pos = it.pos + 1,
                                             !.yielded = Append(it.yielded, pair)]
                     ELSE [it EXCEPT !.done = TRUE]]
      /\ last' = [NoCall EXCEPT !.op = "next", !.it = i, !.obj = it.obj,
                    !.res = IF more THEN Ok(pair) ELSE Raise("StopIteration", "")]
      /\ UNCHANGED <<classes, heap>>

-----------------------------------------------------------------------------
(* MultiEnum._choices *)

\* range(0, len(cls._members)) as the tuple of its values.
RangeTuple(n) == [k \in 1..n |-> IntV(k - 1)]

\* One pass of the loop body for selector f: the series it appends.
Series(c, fields, f) ==
  IF PyEq(f, StrV("_enum")) THEN Ok(TupV(RangeTuple(NumRows(c))))
  ELSE LET ind == PyIndex(fields, f)
       IN  IF ~ind.ok THEN ind
           ELSE IF \E r \in 1..NumRows(c) :
                     ~PyGetItem(classes[c]._members.v[r].v, ind.val.v).ok
           THEN Raise("IndexError", "tuple index out of range")
           ELSE Ok(TupV([r \in 1..NumRows(c) |->
                           PyGetItem(classes[c]._members.v[r].v, ind.val.v).val]))

\* The for loop over the selectors: the first error, or the list of series.
RECURSIVE SeriesList(_, _, _, _)
SeriesList(c, fields, sel, k) ==
  IF k > Len(sel) THEN Ok(TupV(<< >>))
  ELSE LET s == Series(c, fields, sel[k])
       IN  IF ~s.ok THEN s
           ELSE LET rest == SeriesList(c, fields, sel, k + 1)
                IN  IF ~rest.ok THEN rest ELSE Ok(TupV(<<s.val>> \o rest.val.v))

\* A slice bound as Python normalises it against a length.
SliceBound(i, n) ==
  IF i < 0 THEN (IF i + n < 0 THEN 0 ELSE i + n) ELSE (IF i > n THEN n ELSE i)

\* seq[rs:re]
Slice(seq, rs, re) ==
  LET lo == SliceBound(rs, Len(seq))
      hi == SliceBound(re, Len(seq))
  IN  IF lo < hi THEN SubSeq(seq, lo + 1, hi) ELSE << >>

\* tuple(zip(a, b))
Zip(a, b) == [k \in 1..ZipLen(a, b) |-> TupV(<<a[k], b[k]>>)]

ChoicesResult(c) ==
  IF classes[c]._members.t = "none"
  THEN Raise("TypeError", "object of type 'NoneType' has no len()")
  ELSE
  LET range == IF classes[c]._choice_range.t = "none"
               THEN <<0, NumRows(c)>> ELSE classes[c]._choice_range.v
      fields == IF classes[c]._fields.t = "none" \/ classes[c]._fields.v = << >>
                THEN <<IntV(0), IntV(1)>> ELSE classes[c]._fields.v
  IN  \* getattr's default (fields[0], fields[1]) is built before the lookup
      IF Len(fields) < 2 THEN Raise("IndexError", "tuple index out of range")
      ELSE
      LET sel == IF classes[c]._choice_fields.t = "none"
                 THEN <<fields[1], fields[2]>> ELSE classes[c]._choice_fields.v
          series == SeriesList(c, fields, sel, 1)
      IN  IF ~series.ok THEN series
          ELSE IF Len(series.val.v) < 2
          THEN Raise("IndexError", "list index out of range")
          ELSE Ok(TupV(Zip(Slice(series.val.v[1].v, range[1], range[2]),
                           Slice(series.val.v[2].v, range[1], range[2]))))

Choices(c) ==
  /\ last' = [NoCall EXCEPT !.op = "choices", !.cls = c, !.res = ChoicesResult(c)]
  /\ UNCHANGED <<classes, heap, iters>>

-----------------------------------------------------------------------------
(* The enumeration types and the inputs the model draws from. *)

ab == <<"a", "b">>
Ab == <<"A", "b">>
b == <<"b">>
B == <<"B">>
sz == <<"ESZETT">>
SS == <<"S", "S">>
s == <<"s">>
ba == <<"b", "a">>

Row(names) == TupV([k \in 1..Len(names) |-> StrV(names[k])])
Table(rows) == TupV([r \in 1..Len(rows) |-> Row(rows[r])])

\* No name occurs twice, but B folds to b of row 0; SS folds like the sharp s.
PlainTable == Table(<< <<ab, b>>, <<B, sz>> >>)
\* b names rows 0 and 1; column 1 holds b twice.
DupTable == Table(<< <<ab, b, SS>>, <<b, b, Ab>> >>)
\* Four rows of three names under two labels, the shape of the test suite's TestEnum.
TestTable == Table(<< <<ab, b, B>>, <<Ab, sz, SS>>, <<s, ba, b>>, <<SS, B, ab>> >>)

Labels(ls) == TupV([k \in 1..Len(ls) |-> StrV(ls[k])])

MemberChoices == {NoneVal, PlainTable, DupTable}
FieldChoices == {NoneVal, Labels(<<"first">>), Labels(<<"first", "second">>)}

\* Enum is the type under test; SubEnum is a subclass of it that overrides
\* nothing: another concrete type with the same attributes.
ClassNames == {"Enum", "SubEnum"}

IntInputs == {IntV(n) : n \in -MaxInt..MaxInt}
NameInputs == {StrV(n) : n \in {ab, Ab, b, B, SS, s}}
ObjInputs == {ObjV(i) : i \in 1..Len(heap)}
KeyInputs == {"first", "second", "third"}
KeywordValues == {StrV(n) : n \in {b, B, s}}

\* Inputs of the calls with zero or several arguments.
ShapeValues == {IntV(0)}
ShapeKeywords == {[key |-> k, val |-> StrV(b)] : k \in {"first", "second"}}

Distinct(kw) == \A i, j \in 1..Len(kw) : kw[i].key = kw[j].key => i = j

Init ==
  /\ \E m \in MemberChoices, f \in {NoneVal, Labels(<<"first", "second">>)},
        ic \in BOOLEAN :
       classes = [c \in ClassNames |-> ClassDef(m, f, ic, NoneVal, NoneVal)]
  /\ heap = << >>
  /\ iters = << >>
  /\ last = NoCall

\* cls(val)
NewPositional ==
  \E val \in IntInputs \cup NameInputs \cup ObjInputs : New("Enum", <<val>>, << >>)

\* SubEnum(val)
SubInputs == {IntV(1)}

NewSub == \E val \in SubInputs : New("SubEnum", <<val>>, << >>)

\* cls(key=val)
NewKeyword ==
  \E key \in KeyInputs, val \in KeywordValues :
    New("Enum", << >>, <<[key |-> key, val |-> val]>>)

\* cls(), cls(a, b), cls(a, key=val), cls(key1=val1, key2=val2), ...
NewShape ==
  \E p \in 0..MaxArgs, q \in 0..MaxArgs :
    /\ p + q <= MaxArgs
    /\ p + q # 1
    /\ \E args \in [1..p -> ShapeValues], kwargs \in [1..q -> ShapeKeywords] :
         Distinct(kwargs) /\ New("Enum", args, kwargs)

GetAttrAny == \E x \in 1..Len(heap), key \in KeyInputs : GetAttr(x, key)

ToStrAny == \E x \in 1..Len(heap) : ToStr(x)

Next == NewPositional \/ NewSub \/ NewKeyword \/ NewShape \/ GetAttrAny \/ ToStrAny

Spec == Init /\ [][Next]_vars

-----------------------------------------------------------------------------
(* Iteration: instances of Enum built from integers, and iterators over them. *)

IterInputs == {IntV(0), IntV(1), IntV(-1)}

InitIter ==
  /\ \E m \in {PlainTable, DupTable}, f \in FieldChoices :
       classes = [c \in ClassNames |-> ClassDef(m, f, FALSE, NoneVal, NoneVal)]
  /\ heap = << >>
  /\ iters = << >>
  /\ last = NoCall

NewForIter == \E val \in IterInputs : New("Enum", <<val>>, << >>)

IterAny == \E x \in 1..Len(heap) : Iter(x)

IterNextAny == \E i \in 1..Len(iters) : IterNext(i)

NextIter == NewForIter \/ IterAny \/ IterNextAny

SpecIter == InitIter /\ [][NextIter]_vars

-----------------------------------------------------------------------------
(* The choice list: a type is drawn with its selectors and range, and _choices() *)
(* is applied to it.                                                            *)

Selectors == {StrV("_enum"), StrV("first"), StrV("second"), StrV("third")}
SelectorChoices == {NoneVal} \cup {TupV(<<s1, s2>>) : s1, s2 \in Selectors}
RangeChoices == {NoneVal} \cup {TupV(<<rs, re>>) : rs, re \in -1..MaxEnd}

InitChoices ==
  /\ \E m \in MemberChoices \cup {TestTable}, f \in FieldChoices,
        cf \in SelectorChoices, cr \in RangeChoices :
       classes = [c \in ClassNames |-> ClassDef(m, f, FALSE, cf, cr)]
  /\ heap = << >>
  /\ iters = << >>
  /\ last = NoCall

NextChoices == Choices("Enum")

SpecChoices == InitChoices /\ [][NextChoices]_vars

-----------------------------------------------------------------------------
(* The vocabulary of the properties. *)

\* The error kinds, as the exceptions the code raises for them.
UndefinedEnumeration(r) ==
  ~r.ok /\ r.exc = "TypeError" /\ r.msg = "No _members given at definition"
InvalidArguments(r) ==
  ~r.ok /\ r.exc = "TypeError"
        /\ r.msg = "Enumeration creation takes exactly one parameter"
NameNotFound(r) ==
  ~r.ok /\ r.exc = "AttributeError"
        /\ r.msg = "Enumeration name '%s' not in _members"
UnknownField(r) ==
  ~r.ok /\ r.exc = "AttributeError"
        /\ r.msg \in {"Attribute missing: MultiEnum object does not have _fields defined",
                      "Enumeration name '%s' not defined"}

HasTable(c) == classes[c]._members.t = "tuple"
HasFields(c) == classes[c]._fields.t = "tuple"
RowIndices(c) == 0..(NumRows(c) - 1)
\* The name at row i, column j of the Member Table (both counted from 0).
Entry(c, i, j) == classes[c]._members.v[i + 1].v[j + 1]
Width(c, i) == Len(classes[c]._members.v[i + 1].v)
\* Row i lists the name nm.
Lists(c, i, nm) == \E j \in 0..(Width(c, i) - 1) : Entry(c, i, j).v = nm
\* Row i lists a name that is nm up to character case.
ListsFolded(c, i, nm) ==
  \E j \in 0..(Width(c, i) - 1) : casefold(Entry(c, i, j).v) = casefold(nm)
\* Row i accepts nm the way type c compares names.
Accepts(c, i, nm) ==
  IF classes[c]._ignore_case THEN ListsFolded(c, i, nm) ELSE Lists(c, i, nm)
Least(S) == CHOOSE i \in S : \A j \in S : i <= j
\* The positions of label in the Field Name List.
Columns(c, label) ==
  IF HasFields(c)
  THEN {j \in 0..(Len(classes[c]._fields.v) - 1) : classes[c]._fields.v[j + 1].v = label}
  ELSE {}

\* The call recorded in l was cls(val) / cls(key=val).
Positional(l) == l.op = "new" /\ Len(l.args) = 1 /\ Len(l.kwargs) = 0
Keyword(l) == l.op = "new" /\ Len(l.args) = 0 /\ Len(l.kwargs) = 1
\* The call recorded in l returned an instance of its class with ordinal i, held in h.
Built(l, h, i) ==
  /\ l.res.ok /\ l.res.val.t = "obj"
  /\ h[l.res.val.v].cls = l.cls /\ h[l.res.val.v].ordinal = i
\* The step allocated one instance, for row i, and returned it.
Fresh(l, h, h2, i) ==
  /\ l.res = Ok(ObjV(Len(h) + 1))
  /\ h2 = Append(h, [cls |-> l.cls, ordinal |-> i,
                     _names |-> classes[l.cls]._members.v[i + 1].v])

-----------------------------------------------------------------------------
(* C1 *)

\* C1 as stated: Enum(i) has ordinal i for every row index i, and for every name
\* nm listed in row i, Enum(nm) has ordinal i too (it equals Enum(i)).
C1_AsStated ==
  (Positional(last) /\ HasTable(last.cls)) =>
    /\ (last.args[1].t = "int" /\ last.args[1].v \in RowIndices(last.cls))
         => Built(last, heap, last.args[1].v)
    /\ last.args[1].t = "str" =>
         \A i \in RowIndices(last.cls) :
           Lists(last.cls, i, last.args[1].v) => Built(last, heap, i)

\* C1 amended: Enum(i) has ordinal i for every row index i; for every name nm
\* listed in row i that no earlier row accepts (compared exactly, or case-folded
\* when the type ignores case), Enum(nm) has ordinal i.
C1_FirstListingRow ==
  (Positional(last) /\ HasTable(last.cls)) =>
    /\ (last.args[1].t = "int" /\ last.args[1].v \in RowIndices(last.cls))
         => Built(last, heap, last.args[1].v)
    /\ last.args[1].t = "str" =>
         \A i \in RowIndices(last.cls) :
           (/\ Lists(last.cls, i, last.args[1].v)
            /\ \A j \in RowIndices(last.cls) :
                 j < i => ~Accepts(last.cls, j, last.args[1].v))
           => Built(last, heap, i)

\* Enum(nm) returned ordinal 1 for a name of row 1 found in its second column.
C1_Witness ==
  /\ Positional(last) /\ HasTable(last.cls) /\ last.args[1].t = "str"
  /\ Lists(last.cls, 1, last.args[1].v)
  /\ Entry(last.cls, 1, 0).v # last.args[1].v
  /\ ~Accepts(last.cls, 0, last.args[1].v)
  /\ Built(last, heap, 1)

-----------------------------------------------------------------------------
(* C2 *)

\* C2: cls(x) for an instance x of cls returns x itself, allocates nothing and
\* leaves every instance (x included) as it was, at every such call.
C2_SameObject ==
  [][(Positional(last') /\ last'.args[1].t = "obj"
        /\ last'.args[1].v \in 1..Len(heap)
        /\ heap[last'.args[1].v].cls = last'.cls)
     => (last'.res = Ok(last'.args[1]) /\ heap' = heap)]_vars

\* Enum(x) returned x, with a second instance of the other type in the heap.
C2_Witness ==
  /\ Positional(last) /\ last.args[1].t = "obj"
  /\ Len(heap) = 2 /\ heap[1].cls # heap[2].cls
  /\ heap[last.args[1].v].cls = last.cls
  /\ last.res = Ok(last.args[1])

-----------------------------------------------------------------------------
(* C3 *)

\* C3: a type without a Member Table fails with UndefinedEnumeration whatever the
\* inputs; a type with one fails with InvalidArguments unless it is given exactly
\* one input; neither call produces an instance.
C3_CallShape ==
  [][last'.op = "new" =>
       /\ ~HasTable(last'.cls) => (UndefinedEnumeration(last'.res) /\ heap' = heap)
       /\ (HasTable(last'.cls) /\ Len(last'.args) + Len(last'.kwargs) # 1)
            => (InvalidArguments(last'.res) /\ heap' = heap)]_vars

\* A type without a Member Table was called with one positional and one keyword input.
C3_Witness ==
  /\ last.op = "new" /\ ~HasTable(last.cls)
  /\ Len(last.args) = 1 /\ Len(last.kwargs) = 1
  /\ UndefinedEnumeration(last.res)

-----------------------------------------------------------------------------
(* C4 *)

\* C4: for a case-sensitive type, Enum(nm) allocates and returns the instance of
\* the least row index listing nm, and fails with NameNotFound, allocating
\* nothing, exactly when no row lists nm.
C4_LeastRow ==
  [][(Positional(last') /\ last'.args[1].t = "str" /\ HasTable(last'.cls)
        /\ ~classes[last'.cls]._ignore_case)
     => LET rows == {i \in RowIndices(last'.cls) : Lists(last'.cls, i, last'.args[1].v)}
        IN  /\ rows # {} => Fresh(last', heap, heap', Least(rows))
            /\ rows = {} => (NameNotFound(last'.res) /\ heap' = heap)
            /\ NameNotFound(last'.res) => rows = {}]_vars

\* A name listed in rows 0 and 1 gave ordinal 0.
C4_Witness ==
  /\ Positional(last) /\ last.args[1].t = "str" /\ HasTable(last.cls)
  /\ ~classes[last.cls]._ignore_case
  /\ Lists(last.cls, 0, last.args[1].v) /\ Lists(last.cls, 1, last.args[1].v)
  /\ Built(last, heap, 0)

-----------------------------------------------------------------------------
(* C5 *)

\* C5 as stated: Enum(f=v) returns the instance of the first row whose column f
\* is v; it fails with UnknownField when f is no label of the Field Name List
\* (or there is none), and with NameNotFound, the error of an unmatched
\* positional name, when column f holds no v.
C5_AsStated ==
  (Keyword(last) /\ HasTable(last.cls)) =>
    LET c == last.cls
        f == last.kwargs[1].key
        v == last.kwargs[1].val
    IN  IF Columns(c, f) = {} THEN UnknownField(last.res)
        ELSE LET col == Least(Columns(c, f))
                 rows == {i \in RowIndices(c) : PyEq(Entry(c, i, col), v)}
             IN  IF rows = {} THEN NameNotFound(last.res)
                 ELSE Built(last, heap, Least(rows))

-----------------------------------------------------------------------------
(* C6 *)

\* The row the code reads for ordinal i: row i, a negative i counted from the end.
RowAt(c, i) == IF i < 0 THEN NumRows(c) + i ELSE i

\* C6: x.label returns the Member Table entry at x's row and the label's column;
\* it fails with UnknownField when the label is not in the Field Name List or the
\* type has none; the instances are left unchanged.
C6_FieldAccess ==
  [][last'.op = "getattr" =>
       LET x == last'.obj
           c == heap[x].cls
       IN  /\ heap' = heap
           /\ IF Columns(c, last'.key) = {} THEN UnknownField(last'.res)
              ELSE last'.res =
                     Ok(Entry(c, RowAt(c, heap[x].ordinal), Least(Columns(c, last'.key))))]_vars

\* The second label was read from an instance of row 1.
C6_Witness ==
  /\ last.op = "getattr" /\ last.key = "second"
  /\ heap[last.obj].ordinal = 1
  /\ last.res = Ok(Entry(heap[last.obj].cls, 1, 1))

-----------------------------------------------------------------------------
(* C7 *)

\* C7: for a type that ignores case, Enum(nm) for a name that is a table name up
\* to character case has the ordinal of the first row listing such a name; for a
\* type that does not, Enum(nm) fails with NameNotFound unless nm is listed
\* exactly.
C7_CaseFolding ==
  (Positional(last) /\ last.args[1].t = "str" /\ HasTable(last.cls)) =>
    LET c == last.cls
        nm == last.args[1].v
        folded == {i \in RowIndices(c) : ListsFolded(c, i, nm)}
        exact == {i \in RowIndices(c) : Lists(c, i, nm)}
    IN  /\ (classes[c]._ignore_case /\ folded # {}) => Built(last, heap, Least(folded))
        /\ (~classes[c]._ignore_case /\ exact = {}) => NameNotFound(last.res)

\* A type that ignores case resolved a name that no row lists exactly and that
\* has another length than the table name it folds to.
C7_Witness ==
  /\ Positional(last) /\ last.args[1].t = "str" /\ HasTable(last.cls)
  /\ classes[last.cls]._ignore_case
  /\ \A i \in RowIndices(last.cls) : ~Lists(last.cls, i, last.args[1].v)
  /\ ListsFolded(last.cls, 1, last.args[1].v) /\ ~ListsFolded(last.cls, 0, last.args[1].v)
  /\ Built(last, heap, 1)

-----------------------------------------------------------------------------
(* C8 *)

\* A selector is a label of the Field Name List or the ordinal selector.
ValidSelector(c, sel) == sel.v = "_enum" \/ Columns(c, sel.v) # {}
ValidSelectors(c) ==
  \/ classes[c]._choice_fields.t = "none"
  \/ \A k \in 1..2 : ValidSelector(c, classes[c]._choice_fields.v[k])
ValidRange(c) ==
  \/ classes[c]._choice_range.t = "none"
  \/ /\ 0 <= classes[c]._choice_range.v[1]
     /\ classes[c]._choice_range.v[1] <= classes[c]._choice_range.v[2]
     /\ classes[c]._choice_range.v[2] <= NumRows(c)
\* What selector k picks from row i; the default selectors pick columns 0 and 1.
Selected(c, k, i) ==
  IF classes[c]._choice_fields.t = "none" THEN Entry(c, i, k - 1)
  ELSE IF classes[c]._choice_fields.v[k].v = "_enum" THEN IntV(i)
  ELSE Entry(c, i, Least(Columns(c, classes[c]._choice_fields.v[k].v)))
\* The projection C8 describes.
Projection(c) ==
  LET start == IF classes[c]._choice_range.t = "none" THEN 0
               ELSE classes[c]._choice_range.v[1]
      end == IF classes[c]._choice_range.t = "none" THEN NumRows(c)
             ELSE classes[c]._choice_range.v[2]
  IN  [k \in 1..(end - start) |->
         TupV(<<Selected(c, 1, start + k - 1), Selected(c, 2, start + k - 1)>>)]

\* C8 as stated: for selectors that are labels or the ordinal selector and a range
\* with 0 <= start <= end <= number of rows, _choices() returns the end - start
\* pairs of the selected values of rows start .. end - 1, in row order; with the
\* defaults, the first two columns of every row; the types are left unchanged.
C8_AsStated ==
  [][(last'.op = "choices" /\ HasTable(last'.cls)
        /\ ValidSelectors(last'.cls) /\ ValidRange(last'.cls))
     => (last'.res = Ok(TupV(Projection(last'.cls))) /\ classes' = classes)]_vars

\* C8 holds of the types whose Field Name List is absent or has two labels.
C8_TwoLabels ==
  [][(last'.op = "choices" /\ HasTable(last'.cls)
        /\ ValidSelectors(last'.cls) /\ ValidRange(last'.cls)
        /\ (HasFields(last'.cls) => Len(classes[last'.cls]._fields.v) >= 2))
     => (last'.res = Ok(TupV(Projection(last'.cls))) /\ classes' = classes)]_vars

-----------------------------------------------------------------------------
(* C9 *)

\* The pairs C9 describes for instance x: (label j, name at x's row, column j).
Pairs(x) ==
  LET c == heap[x].cls
  IN  [j \in 1..Len(classes[c]._fields.v) |->
         TupV(<<classes[c]._fields.v[j], Entry(c, RowAt(c, heap[x].ordinal), j - 1)>>)]

\* C9: iter(x) fails and starts nothing when the type has no Field Name List, and
\* otherwise starts a new iterator that has yielded nothing; each next() yields
\* the next pair of Pairs(x) while one is left and ends the iteration after the
\* last; no step of an iteration changes an instance or another iterator.
C9_Iteration ==
  [][/\ last'.op \in {"iter", "next"} => heap' = heap
     /\ last'.op = "iter" =>
          IF HasFields(heap[last'.obj].cls)
          THEN /\ last'.res.ok /\ last'.it = Len(iters) + 1
               /\ Len(iters') = Len(iters) + 1
               /\ iters'[last'.it].obj = last'.obj
               /\ iters'[last'.it].yielded = << >>
               /\ ~iters'[last'.it].done
               /\ \A i \in 1..Len(iters) : iters'[i] = iters[i]
          ELSE ~last'.res.ok /\ iters' = iters
     /\ last'.op = "next" =>
          LET i == last'.it
              got == iters[i].yielded
              all == Pairs(iters[i].obj)
          IN  /\ Len(iters') = Len(iters)
              /\ \A k \in 1..Len(iters) : k # i => iters'[k] = iters[k]
              /\ IF Len(got) < Len(all) /\ ~iters[i].done
                 THEN /\ last'.res = Ok(all[Len(got) + 1])
                      /\ iters'[i].yielded = Append(got, all[Len(got) + 1])
                      /\ ~iters'[i].done
                 ELSE /\ last'.res = Raise("StopIteration", "")
                      /\ iters'[i].yielded = got
                      /\ iters'[i].done
                      /\ got = all]_vars

\* Two iterations of one instance have both ended, each after the same two pairs.
C9_Witness ==
  /\ Len(iters) = 2 /\ iters[1].obj = iters[2].obj
  /\ iters[1].done /\ iters[2].done
  /\ Len(iters[1].yielded) = 2
  /\ iters[1].yielded = Pairs(iters[1].obj) /\ iters[2].yielded = Pairs(iters[2].obj)

-----------------------------------------------------------------------------
(* C10 *)

\* C10 as stated: every instance produced has a row index as its ordinal and the
\* Member Table row of that ordinal as its cached names; Enum(n) for an integer n
\* that is no row index produces no instance.
C10_AsStated ==
  /\ \A x \in 1..Len(heap) :
       /\ heap[x].ordinal \in RowIndices(heap[x].cls)
       /\ heap[x]._names = classes[heap[x].cls]._members.v[heap[x].ordinal + 1].v
  /\ (Positional(last) /\ HasTable(last.cls) /\ last.args[1].t = "int"
        /\ last.args[1].v \notin RowIndices(last.cls)) => ~last.res.ok

=============================================================================
